---------------------------- MODULE Spec2Model ----------------------------
(***************************************************************************)
(* PricePoint stock data query engine (src/stock_data_query_engine.py).    *)
(*                                                                         *)
(* The store is the SQLite table `stocks` with PRIMARY KEY (Date, Ticker). *)
(* load_csv_data validates a CSV batch and inserts it with INSERT OR       *)
(* IGNORE; run_queries, plot_price_trend and custom_query read (or, for    *)
(* custom_query, arbitrarily change) the store; main owns the connection.  *)
(*                                                                         *)
(* Three specifications share the variables and the operators:             *)
(*   SpecIngest  load_csv_data called on batches, and called again on the  *)
(*               same batch;                                               *)
(*   SpecQuery   run_queries and plot_price_trend on stores built by       *)
(*               ingestion;                                                *)
(*   Spec        main: connect, set up, ingest, the menu loop, shutdown.   *)
(*                                                                         *)
(* Prices are in cents (100.01 is 10001).  CSV cells are the texts of the  *)
(* file: Volume and Date cells are converted as the code converts them.    *)
(* Ticker cells are non-empty identifiers, Volume cells are integer        *)
(* literals or non-numeric text, and the dates of one file are written in  *)
(* one format.                                                             *)
(***************************************************************************)
EXTENDS Integers, Sequences, FiniteSets, TLC

VARIABLES
    stocks,       \* rows of table stocks: records Date, Ticker, Open, High, Low, Close, Volume
    tableExists,  \* whether table stocks exists in stock_market.db
    conn,         \* main's connection: "none", "open", "closed"
    closeCount,   \* number of conn.close() calls of this process
    pc,           \* position of the caller
    df,           \* the CSV handed to load_csv_data
    before,       \* the store as it was when the last load_csv_data was entered
    outcome,      \* what the last load_csv_data did
    out,          \* what the last run_queries / plot_price_trend / custom_query did
    customRan     \* whether this session has executed a custom statement

vars == <<stocks, tableExists, conn, closeCount, pc, df, before, outcome, out, customRan>>

-----------------------------------------------------------------------------
(* Bounds of the model *)

\* longest CSV batch handed to load_csv_data in SpecIngest
MaxRows == 2
\* number of trading days a ticker can have in SpecQuery
MaxDays == 7
\* longest stocks.csv the session of Spec ingests at startup
MaxSessionRows == 1

-----------------------------------------------------------------------------
(* Cell conversions *)

Digits == <<"0", "1", "2", "3", "4", "5", "6", "7", "8", "9">>
Pad2(n) == Digits[(n \div 10) + 1] \o Digits[(n % 10) + 1]
Pad4(n) == Pad2(n \div 100) \o Pad2(n % 100)

NaN == [isna |-> TRUE, val |-> 0]
Num(n) == [isna |-> FALSE, val |-> n]

\* Volume cells that pd.to_numeric converts, with their values; any other text
\* is coerced to NaN
NumericLiterals ==
    {<<Digits[n + 1] \o "00", 100 * n>> : n \in 1..9}
        \cup {<<"1000", 1000>>, <<"2500", 2500>>, <<"-5", -5>>}

NumericCells == {p[1] : p \in NumericLiterals}
IsNumeric(cell) == cell \in NumericCells

\* the value of each numeric cell
NumericValues == [c \in NumericCells |-> (CHOOSE p \in NumericLiterals : p[1] = c)[2]]
NumericValue(cell) == NumericValues[cell]

\* pd.to_numeric(df['Volume'], errors='coerce') on one cell
ToNumeric(cell) == IF IsNumeric(cell) THEN Num(NumericValue(cell)) ELSE NaN

\* a row of invalid_volumes: df['Volume'].isna() | (df['Volume'] < 0)
InvalidVolume(v) == v.isna \/ v.val < 0

NaT == <<0, 0, 0>>

Day(n) == <<2023, 1, n>>

\* the null a NaT becomes under .dt.strftime
NullDate == "NaT"

\* .dt.strftime('%Y-%m-%d') on one timestamp
Strftime(ts) ==
    IF ts = NaT THEN NullDate
    ELSE Pad4(ts[1]) \o "-" \o Pad2(ts[2]) \o "-" \o Pad2(ts[3])


\* Date cells that pd.to_datetime parses, with the calendar date each denotes;
\* any other text is coerced to NaT
DateLiterals ==
    {<<Strftime(Day(n)), Day(n)>> : n \in 1..31} \cup {<<"01/01/2023", Day(1)>>}

DateCells == {p[1] : p \in DateLiterals}
IsDate(cell) == cell \in DateCells

\* the timestamp of each date cell
Timestamps == [c \in DateCells |-> (CHOOSE p \in DateLiterals : p[1] = c)[2]]

\* pd.to_datetime(df['Date'], errors='coerce') on one cell
ToDatetime(cell) == IF IsDate(cell) THEN Timestamps[cell] ELSE NaT

\* the Date column after line 62, cell by cell
NormalDates == [c \in DateCells |-> Strftime(ToDatetime(c))]
NormalDate(cell) == IF IsDate(cell) THEN NormalDates[cell] ELSE Strftime(ToDatetime(cell))

\* rank of a stored Date in TEXT order (YYYY-MM-DD texts of one month order by day)
DateRanks == [d \in {Strftime(Day(n)) : n \in 1..31} |-> CHOOSE n \in 1..31 : Strftime(Day(n)) = d]
DateRank(d) == DateRanks[d]

-----------------------------------------------------------------------------
(* Ingestion: load_csv_data *)

RequiredColumns == {"Date", "Ticker", "Open", "High", "Low", "Close", "Volume"}

\* the stored form of a row of the validated frame
RecordOf(row) ==
    [Date |-> NormalDate(row.Date), Ticker |-> row.Ticker, Open |-> row.Open,
     High |-> row.High, Low |-> row.Low, Close |-> row.Close,
     Volume |-> ToNumeric(row.Volume).val]

\* PRIMARY KEY (Date, Ticker): the stored row that conflicts with rec
Conflicts(table, rec) == {r \in table : r.Date = rec.Date /\ r.Ticker = rec.Ticker}

\* a mutant of InsertOrIgnore: INSERT OR REPLACE
InsertOrReplace(acc, rec) ==
    [table |-> (acc.table \ Conflicts(acc.table, rec)) \cup {rec},
     rowcount |-> acc.rowcount + 1, error |-> acc.error]

\* a mutant of InsertOrIgnore: plain INSERT, a conflict raises IntegrityError
InsertOrFail(acc, rec) ==
    IF Conflicts(acc.table, rec) = {}
    THEN [table |-> acc.table \cup {rec}, rowcount |-> acc.rowcount + 1, error |-> acc.error]
    ELSE [table |-> acc.table, rowcount |-> acc.rowcount, error |-> TRUE]

\* one execution of INSERT OR IGNORE INTO stocks ... VALUES (?,?,?,?,?,?,?)
InsertOrIgnore(acc, rec) ==
    IF Conflicts(acc.table, rec) = {}
    THEN [table |-> acc.table \cup {rec}, rowcount |-> acc.rowcount + 1, error |-> acc.error]
    ELSE acc

\* cursor.executemany(insert_query, rows): the statement once per row, in order
RECURSIVE ExecuteMany(_, _)
ExecuteMany(acc, rows) ==
    IF rows = <<>> THEN acc
    ELSE ExecuteMany(InsertOrIgnore(acc, RecordOf(Head(rows))), Tail(rows))

\* a mutant of VolumeOk: the test for negative volumes is missing
VolumeOkNoSign(row) == ~ToNumeric(row.Volume).isna

\* a row kept by line 56: df['Volume'].notna() & (df['Volume'] >= 0)
VolumeOk(row) == ~InvalidVolume(ToNumeric(row.Volume))

\* a mutant of Kept: the rows with invalid volumes stay in the frame
KeptAll(rows) == rows

\* df = df[df['Volume'].notna() & (df['Volume'] >= 0)]
Kept(rows) == SelectSeq(rows, VolumeOk)

\* a mutant of HasNullDate: the date gate never fires
NoDateGate(rows) == FALSE

\* df['Date'].isnull().any() on the frame that passed the volume filter
HasNullDate(rows) == \E i \in 1..Len(rows) : NormalDate(rows[i].Date) = NullDate

NoOutcome ==
    [status |-> "none", warned |-> FALSE, skipped |-> 0, insertIssued |-> FALSE,
     inserted |-> 0]

Raised(err) == [NoOutcome EXCEPT !.status = err]

\* load_csv_data(conn, cursor, csv_file): the new table and what the call reported
LoadCsvData(table, csv) ==
    IF ~csv.exists THEN [table |-> table, outcome |-> Raised("FileNotFoundError")]
    ELSE IF ~(RequiredColumns \subseteq csv.columns)
    THEN [table |-> table, outcome |-> Raised("KeyError")]
    ELSE
      LET kept == Kept(csv.rows)
          nbad == Len(csv.rows) - Len(kept)
          seen == [NoOutcome EXCEPT !.warned = nbad > 0, !.skipped = nbad]
      IN  IF HasNullDate(kept)
          THEN [table |-> table, outcome |-> [seen EXCEPT !.status = "ValueError"]]
          ELSE
            LET done == ExecuteMany([table |-> table, rowcount |-> 0, error |-> FALSE], kept)
            IN  IF done.error
                THEN \* except sqlite3.Error: conn.rollback(); raise
                     [table |-> table,
                      outcome |-> [seen EXCEPT !.status = "sqlite3.Error",
                                               !.insertIssued = TRUE]]
                ELSE [table |-> done.table,
                      outcome |-> [seen EXCEPT !.status = "ok", !.insertIssued = TRUE,
                                               !.inserted = done.rowcount]]

-----------------------------------------------------------------------------
(* Query engine: validate_ticker, validate_date, run_queries, plot_price_trend *)

\* LIMIT 5 of the high-volume query
TopN == 5

Null == [isnull |-> TRUE, num |-> 0, den |-> 1]
Ratio(n, d) == [isnull |-> FALSE, num |-> n, den |-> d]

NoOut ==
    [op |-> "none", ticker |-> "", date |-> "", result |-> "none", executed |-> {},
     avg |-> Null, top |-> <<>>, increases |-> {}, volatility |-> Null,
     series |-> <<>>, plotted |-> FALSE, saved |-> FALSE]

\* WHERE Ticker = ?
TickerRows(table, ticker) == {r \in table : r.Ticker = ticker}

\* a mutant of ValidateTicker: every ticker is taken as known
ValidateTickerAlways(table, ticker) == TRUE

\* validate_ticker: SELECT COUNT(*) FROM stocks WHERE Ticker = ?, fetchone()[0] > 0
ValidateTicker(table, ticker) == Cardinality(TickerRows(table, ticker)) > 0

\* texts datetime.strptime(date_str, '%Y-%m-%d') accepts: the directives take
\* one or two digits, so 2023-1-1 is accepted as well
StrptimeLiterals == {Strftime(Day(n)) : n \in 1..31} \cup {"2023-1-1"}

\* validate_date
ValidateDate(text) == text \in StrptimeLiterals

\* the sum of f[r] over the rows
RECURSIVE SumOf(_, _)
SumOf(f, rows) ==
    IF rows = {} THEN 0
    ELSE LET r == CHOOSE x \in rows : TRUE IN f[r] + SumOf(f, rows \ {r})

\* SELECT AVG(Close) FROM stocks WHERE Ticker = ?   (NULL over no rows)
AvgClose(table, ticker) ==
    LET rows == TickerRows(table, ticker)
    IN  IF rows = {} THEN Null
        ELSE Ratio(SumOf([r \in rows |-> r.Close], rows), Cardinality(rows))

\* the value whose SQRT the volatility query returns: AVG((Close - avg_close)^2)
\* with avg_close = sum/n, which is the sum of (n*Close - sum)^2 over n^3
Variance(table, ticker) ==
    LET rows == TickerRows(table, ticker)
        n == Cardinality(rows)
        sum == SumOf([r \in rows |-> r.Close], rows)
        dev2 == [r \in rows |-> (n * r.Close - sum) * (n * r.Close - sum)]
    IN  IF rows = {} THEN Null ELSE Ratio(SumOf(dev2, rows), n * n * n)

\* the rows of `rows` in ORDER BY Volume DESC LIMIT `limit`, as (Date, Volume):
\* every order SQL allows, rows of equal Volume coming in any order
RECURSIVE OrderByVolumeDesc(_, _)
OrderByVolumeDesc(rows, limit) ==
    IF rows = {} \/ limit = 0 THEN {<<>>}
    ELSE LET first == {r \in rows : \A x \in rows : x.Volume <= r.Volume}
         IN  UNION {{<<[Date |-> r.Date, Volume |-> r.Volume]>> \o rest :
                        rest \in OrderByVolumeDesc(rows \ {r}, limit - 1)} : r \in first}

\* a mutant of HighVolumeDays: WHERE Ticker = ? is missing
HighVolumeDaysAnyTicker(table, ticker) == OrderByVolumeDesc(table, TopN)

\* SELECT Date, Volume FROM stocks WHERE Ticker = ? ORDER BY Volume DESC LIMIT 5
HighVolumeDays(table, ticker) == OrderByVolumeDesc(TickerRows(table, ticker), TopN)

\* a mutant of PriceIncreases: Close >= Open
PriceNotDown(table, date) ==
    {[Ticker |-> r.Ticker, Open |-> r.Open, Close |-> r.Close] :
        r \in {x \in table : x.Date = date /\ x.Close >= x.Open}}

\* SELECT Ticker, Open, Close FROM stocks WHERE Date = ? AND Close > Open
PriceIncreases(table, date) ==
    {[Ticker |-> r.Ticker, Open |-> r.Open, Close |-> r.Close] :
        r \in {x \in table : x.Date = date /\ x.Close > x.Open}}

\* validate_ticker on a database without table stocks raises
\* sqlite3.OperationalError, which neither function catches
NoTable(op, ticker) ==
    [NoOut EXCEPT !.op = op, !.ticker = ticker, !.result = "sqlite3.Error",
                  !.executed = {"count_ticker"}]

\* run_queries(cursor, ticker, date); hv is the fetchall() of the high-volume query
RunQueries(exists, table, ticker, date, hv) ==
    LET o == [NoOut EXCEPT !.op = "run_queries", !.ticker = ticker, !.date = date]
    IN  IF ~exists THEN [NoTable("run_queries", ticker) EXCEPT !.date = date]
        ELSE IF ~ValidateTicker(table, ticker)
        THEN [o EXCEPT !.result = "no-data-ticker", !.executed = {"count_ticker"}]
        ELSE IF ~ValidateDate(date)
        THEN [o EXCEPT !.result = "bad-date", !.executed = {"count_ticker"}]
        ELSE IF Cardinality({r \in table : r.Date = date}) = 0
        THEN [o EXCEPT !.result = "no-data-date",
                       !.executed = {"count_ticker", "count_date"}]
        ELSE [o EXCEPT !.result = "ok",
                       !.executed = {"count_ticker", "count_date", "avg_close",
                                     "high_volume", "price_increase", "volatility"},
                       !.avg = AvgClose(table, ticker),
                       !.top = hv,
                       !.increases = PriceIncreases(table, date),
                       !.volatility = Variance(table, ticker)]

\* the rows in ORDER BY Date, as (Date, Close); a ticker has one row per Date
RECURSIVE OrderByDate(_)
OrderByDate(rows) ==
    IF rows = {} THEN <<>>
    ELSE LET r == CHOOSE x \in rows : \A y \in rows : DateRank(x.Date) <= DateRank(y.Date)
         IN  <<[Date |-> r.Date, Close |-> r.Close]>> \o OrderByDate(rows \ {r})

\* plot_price_trend(cursor, ticker, save_plot)
PlotPriceTrend(exists, table, ticker, save) ==
    LET o == [NoOut EXCEPT !.op = "plot_price_trend", !.ticker = ticker]
        data == OrderByDate(TickerRows(table, ticker))
    IN  IF ~exists THEN NoTable("plot_price_trend", ticker)
        ELSE IF ~ValidateTicker(table, ticker)
        THEN [o EXCEPT !.result = "no-data-ticker", !.executed = {"count_ticker"}]
        ELSE IF data = <<>>
        THEN [o EXCEPT !.result = "no-data-series",
                       !.executed = {"count_ticker", "series"}]
        ELSE [o EXCEPT !.result = "ok", !.executed = {"count_ticker", "series"},
                       !.series = data, !.plotted = TRUE, !.saved = save]

-----------------------------------------------------------------------------
(* Inputs *)

\* open, high, low, close of a day that closed flat, up by a cent, down
Flat == [Open |-> 10000, High |-> 10050, Low |-> 9950, Close |-> 10000]
Up   == [Open |-> 10000, High |-> 10200, Low |-> 9990, Close |-> 10001]
Down == [Open |-> 10001, High |-> 10100, Low |-> 9900, Close |-> 9999]

MkRow(date, ticker, px, volume) ==
    [Date |-> date, Ticker |-> ticker, Open |-> px.Open, High |-> px.High,
     Low |-> px.Low, Close |-> px.Close, Volume |-> volume]

MkCsv(rows) == [exists |-> TRUE, columns |-> RequiredColumns, rows |-> rows]

NoFile == [exists |-> FALSE, columns |-> {}, rows |-> <<>>]
NoVolumeColumn == [exists |-> TRUE, columns |-> RequiredColumns \ {"Volume"}, rows |-> <<>>]

SeqsUpTo(S, n) == UNION {[1..k -> S] : k \in 0..n}

\* price and Volume cell of a row: two valid volumes, a negative one, a non-numeric one
IngestPayloads == {<<Flat, "1000">>, <<Down, "2500">>, <<Flat, "-5">>, <<Down, "abc">>}

IngestRows ==
    {MkRow(d, t, p[1], p[2]) :
        d \in {"2023-01-01", "01/01/2023", "not-a-date"}, t \in {"AAPL", "MSFT"},
        p \in IngestPayloads}

\* the Date column of a file is written in one format: pd.to_datetime may take
\* the format of the column from its first cell
OneDateFormat(rows) ==
    \A i, j \in 1..Len(rows) :
        (IsDate(rows[i].Date) /\ IsDate(rows[j].Date)) =>
            (rows[i].Date = "01/01/2023" <=> rows[j].Date = "01/01/2023")

CsvsOf(rowSet, n) == {MkCsv(rows) : rows \in {r \in SeqsUpTo(rowSet, n) : OneDateFormat(r)}}

IngestCsvs == CsvsOf(IngestRows, MaxRows) \cup {NoFile, NoVolumeColumn}

-----------------------------------------------------------------------------
(* SpecIngest: load_csv_data called on a batch, and again on the same batch *)

InitIngest ==
    /\ stocks = {}
    /\ tableExists = TRUE
    /\ conn = "open"
    /\ closeCount = 0
    /\ pc = "ready"
    /\ df = NoFile
    /\ before = {}
    /\ outcome = NoOutcome
    /\ out = NoOut
    /\ customRan = FALSE

\* the effect of one call of load_csv_data on the state
Ingest(csv) ==
    LET r == LoadCsvData(stocks, csv)
    IN  /\ before' = stocks
        /\ df' = csv
        /\ stocks' = r.table
        /\ outcome' = r.outcome

IngestLoad ==
    /\ pc = "ready"
    /\ \E csv \in IngestCsvs : Ingest(csv)
    /\ pc' = "loaded"
    /\ UNCHANGED <<tableExists, conn, closeCount, out, customRan>>

IngestReload ==
    /\ pc = "loaded"
    /\ Ingest(df)
    /\ pc' = "reloaded"
    /\ UNCHANGED <<tableExists, conn, closeCount, out, customRan>>

\* the caller drops the frame and the report; the store stays
IngestReturn ==
    /\ pc \in {"loaded", "reloaded"}
    /\ pc' = "ready"
    /\ df' = NoFile
    /\ before' = {}
    /\ outcome' = NoOutcome
    /\ UNCHANGED <<stocks, tableExists, conn, closeCount, out, customRan>>

NextIngest ==
    \/ IngestLoad
    \/ IngestReload
    \/ IngestReturn

SpecIngest == InitIngest /\ [][NextIngest]_vars

-----------------------------------------------------------------------------
(* SpecQuery: the query functions called on stores built by ingestion *)

VolumeText(k) == Digits[k + 1] \o "00"

\* AAPL trades on days 1..MaxDays: day n is flat on volume 100n or up on volume
\* 100(MaxDays+1-n); MSFT trades on day 1, up or down
QueryRows ==
    {MkRow(Strftime(Day(n)), "AAPL", Flat, VolumeText(n)) : n \in 1..MaxDays}
        \cup {MkRow(Strftime(Day(n)), "AAPL", Up, VolumeText(MaxDays + 1 - n)) : n \in 1..MaxDays}
        \cup {MkRow("2023-01-01", "MSFT", Up, "2500"), MkRow("2023-01-01", "MSFT", Down, "1000")}

QueryTickers == {"AAPL", "MSFT", "GOOG"}
QueryDates == {"2023-01-01", "2023-01-02", "2023-1-1", "2023/01/01"}

InitQuery ==
    /\ stocks = {}
    /\ tableExists = TRUE
    /\ conn = "open"
    /\ closeCount = 0
    /\ pc = "ready"
    /\ df = NoFile
    /\ before = {}
    /\ outcome = NoOutcome
    /\ out = NoOut
    /\ customRan = FALSE

QueryLoad ==
    /\ pc = "ready"
    /\ \E row \in QueryRows : stocks' = LoadCsvData(stocks, MkCsv(<<row>>)).table
    /\ UNCHANGED <<tableExists, conn, closeCount, pc, df, before, outcome, out, customRan>>

QueryRun ==
    /\ pc = "ready"
    /\ \E ticker \in QueryTickers, date \in QueryDates :
          \E hv \in HighVolumeDays(stocks, ticker) :
             out' = RunQueries(tableExists, stocks, ticker, date, hv)
    /\ pc' = "answered"
    /\ UNCHANGED <<stocks, tableExists, conn, closeCount, df, before, outcome, customRan>>

QueryPlot ==
    /\ pc = "ready"
    /\ \E ticker \in QueryTickers, save \in BOOLEAN :
          out' = PlotPriceTrend(tableExists, stocks, ticker, save)
    /\ pc' = "answered"
    /\ UNCHANGED <<stocks, tableExists, conn, closeCount, df, before, outcome, customRan>>

\* the caller has read the answer
QueryReturn ==
    /\ pc = "answered"
    /\ pc' = "ready"
    /\ out' = NoOut
    /\ UNCHANGED <<stocks, tableExists, conn, closeCount, df, before, outcome, customRan>>

NextQuery ==
    \/ QueryLoad
    \/ QueryRun
    \/ QueryPlot
    \/ QueryReturn

SpecQuery == InitQuery /\ [][NextQuery]_vars

-----------------------------------------------------------------------------
(* Spec: main.  The database file outlives the process: a later run finds *)
(* the table and the rows the earlier runs committed.                      *)

SessionRows ==
    {MkRow("2023-01-01", "AAPL", Up, "1000"), MkRow("2023-01-02", "AAPL", Flat, "2500"),
     MkRow("01/01/2023", "MSFT", Down, "1000"), MkRow("not-a-date", "MSFT", Up, "1000"),
     MkRow("2023-01-02", "MSFT", Up, "abc")}

\* what stocks.csv can be when main starts
SessionCsvs == CsvsOf(SessionRows, MaxSessionRows) \cup {NoFile, NoVolumeColumn}

\* what the user can type at a ticker prompt, a date prompt, the custom-query prompt
TickerInputs == {"", "AAPL", "GOOG"}
DateInputs == {"", "2023-01-02", "2023/01/01"}
CustomInputs == {"SELECT * FROM stocks", "SELEC", "DROP TABLE stocks", "exit", "EXIT"}

\* input(...) or default
OrDefault(text, default) == IF text = "" THEN default ELSE text

\* query.lower()
Lower(text) == IF text = "EXIT" THEN "exit" ELSE text

Init ==
    /\ stocks = {}
    /\ tableExists = FALSE
    /\ conn = "none"
    /\ closeCount = 0
    /\ pc = "start"
    /\ df = NoFile
    /\ before = {}
    /\ outcome = NoOutcome
    /\ out = NoOut
    /\ customRan = FALSE

\* connect_to_db: sqlite3.connect succeeds
Connect ==
    /\ pc = "start"
    /\ conn' = "open"
    /\ pc' = "setup"
    /\ UNCHANGED <<stocks, tableExists, closeCount, df, before, outcome, out, customRan>>

\* connect_to_db: sqlite3.connect raises sqlite3.Error, exit(1)
ConnectFails ==
    /\ pc = "start"
    /\ pc' = "exited"
    /\ UNCHANGED <<stocks, tableExists, conn, closeCount, df, before, outcome, out, customRan>>

\* setup_database: CREATE TABLE IF NOT EXISTS keeps an existing table and its rows
SetupDatabase ==
    /\ pc = "setup"
    /\ tableExists' = TRUE
    /\ pc' = "load"
    /\ UNCHANGED <<stocks, conn, closeCount, df, before, outcome, out, customRan>>

\* main, line 226: an exception of load_csv_data leaves main; nothing catches it
MainLoad ==
    /\ pc = "load"
    /\ \E csv \in SessionCsvs : Ingest(csv)
    /\ pc' = IF outcome'.status = "ok" THEN "menu" ELSE "crashed"
    /\ UNCHANGED <<tableExists, conn, closeCount, out, customRan>>

\* main, lines 253-255, reached by break
Shutdown ==
    /\ conn' = "closed"
    /\ closeCount' = closeCount + 1
    /\ pc' = "exited"

\* the step of main after a query function returned or raised
AfterQuery(o) ==
    /\ out' = o
    /\ pc' = IF o.result = "sqlite3.Error" THEN "crashed" ELSE "menu"

\* choice '1'
Choice1 ==
    /\ pc = "menu"
    /\ \E tickerInput \in TickerInputs, dateInput \in DateInputs :
          LET ticker == OrDefault(tickerInput, "AAPL")
              date == OrDefault(dateInput, "2023-01-01")
          IN  \E hv \in HighVolumeDays(stocks, ticker) :
                 AfterQuery(RunQueries(tableExists, stocks, ticker, date, hv))
    /\ UNCHANGED <<stocks, tableExists, conn, closeCount, df, before, outcome, customRan>>

\* cursor.execute(query) of custom_query on the statements of CustomInputs:
\* the table and rows afterwards, and what custom_query printed
Execute(exists, table, query) ==
    LET o == [NoOut EXCEPT !.op = "custom_query", !.executed = {query}]
    IN  IF query = "SELECT * FROM stocks" /\ exists
        THEN [exists |-> exists, table |-> table,
              out |-> [o EXCEPT !.result = IF table = {} THEN "no-results" ELSE "rows"]]
        ELSE IF query = "DROP TABLE stocks" /\ exists
        THEN [exists |-> FALSE, table |-> {}, out |-> [o EXCEPT !.result = "no-results"]]
        ELSE \* a syntax error, or no such table: except sqlite3.Error, reported
             [exists |-> exists, table |-> table, out |-> [o EXCEPT !.result = "error-reported"]]

\* choice '2': custom_query returns True
Choice2 ==
    /\ pc = "menu"
    /\ \E query \in CustomInputs :
          /\ Lower(query) # "exit"
          /\ LET r == Execute(tableExists, stocks, query)
             IN  /\ tableExists' = r.exists
                 /\ stocks' = r.table
                 /\ out' = r.out
    /\ customRan' = TRUE
    /\ UNCHANGED <<conn, closeCount, pc, df, before, outcome>>

\* choice '2': custom_query returns False on 'exit', main breaks
Choice2Exit ==
    /\ pc = "menu"
    /\ \E query \in CustomInputs : Lower(query) = "exit"
    /\ Shutdown
    /\ UNCHANGED <<stocks, tableExists, df, before, outcome, out, customRan>>

\* choice '3'
Choice3 ==
    /\ pc = "menu"
    /\ \E tickerInput \in TickerInputs, save \in BOOLEAN :
          AfterQuery(PlotPriceTrend(tableExists, stocks, OrDefault(tickerInput, "AAPL"), save))
    /\ UNCHANGED <<stocks, tableExists, conn, closeCount, df, before, outcome, customRan>>

\* choice '4'
Choice4 ==
    /\ pc = "menu"
    /\ Shutdown
    /\ UNCHANGED <<stocks, tableExists, df, before, outcome, out, customRan>>

\* any other choice: "Invalid choice. Try again."
InvalidChoice ==
    /\ pc = "menu"
    /\ out' = [NoOut EXCEPT !.op = "invalid_choice"]
    /\ UNCHANGED <<stocks, tableExists, conn, closeCount, pc, df, before, outcome, customRan>>

\* the program is run again on the database file the last run left
RunAgain ==
    /\ pc \in {"exited", "crashed"}
    /\ pc' = "start"
    /\ conn' = "none"
    /\ closeCount' = 0
    /\ df' = NoFile
    /\ before' = {}
    /\ outcome' = NoOutcome
    /\ out' = NoOut
    /\ customRan' = FALSE
    /\ UNCHANGED <<stocks, tableExists>>

Next ==
    \/ Connect
    \/ ConnectFails
    \/ SetupDatabase
    \/ MainLoad
    \/ Choice1
    \/ Choice2
    \/ Choice2Exit
    \/ Choice3
    \/ Choice4
    \/ InvalidChoice
    \/ RunAgain

Spec == Init /\ [][Next]_vars

-----------------------------------------------------------------------------
(* Ingestion claims, checked under SpecIngest *)

Loaded == pc \in {"loaded", "reloaded"}

Rows == df.rows
RowIdx == 1..Len(Rows)
Readable == df.exists /\ RequiredColumns \subseteq df.columns

\* the Volume cell is a non-negative number
ValidVolumeCell(row) == IsNumeric(row.Volume) /\ NumericValue(row.Volume) >= 0

\* the Date cell denotes a calendar date
DateOk(row) == IsDate(row.Date)

SameKey(a, b) == NormalDate(a.Date) = NormalDate(b.Date) /\ a.Ticker = b.Ticker
Stored(row) == \E r \in stocks : r.Date = NormalDate(row.Date) /\ r.Ticker = row.Ticker
WasStored(row) == \E r \in before : r.Date = NormalDate(row.Date) /\ r.Ticker = row.Ticker

\* all required columns, all volumes valid, all dates parseable
WellFormed ==
    Readable /\ \A i \in RowIdx : ValidVolumeCell(Rows[i]) /\ DateOk(Rows[i])

BadDateInKept == \E i \in RowIdx : ValidVolumeCell(Rows[i]) /\ ~DateOk(Rows[i])

\* C2: a batch with a valid-volume row of unparseable date fails with the date
\* error before any insert is issued, and the store is as it was before the call.
C2_FailFast ==
    (Loaded /\ Readable /\ BadDateInKept) =>
        /\ outcome.status = "ValueError"
        /\ ~outcome.insertIssued
        /\ outcome.inserted = 0
        /\ stocks = before

C2_Witness ==
    /\ pc = "loaded" /\ Readable /\ BadDateInKept
    /\ \E i \in RowIdx : ValidVolumeCell(Rows[i]) /\ DateOk(Rows[i]) /\ ~WasStored(Rows[i])
    /\ before # {}
    /\ outcome.status = "ValueError"
    /\ stocks = before

\* all dates valid, keys pairwise distinct and not yet in the store
FreshBatch ==
    /\ Readable
    /\ \A i \in RowIdx : DateOk(Rows[i]) /\ ~WasStored(Rows[i])
    /\ \A i, j \in RowIdx : i # j => ~SameKey(Rows[i], Rows[j])

InvalidIdx == {i \in RowIdx : ~ValidVolumeCell(Rows[i])}

C10_AnyBadDateRejects ==
    (Loaded /\ Readable /\ \E i \in RowIdx : ~DateOk(Rows[i])) =>
        (outcome.status = "ValueError" /\ stocks = before)

\* C10 as amended: the batch is rejected with the date error exactly when a row
\* that passed the volume filter has an unparseable date; then nothing is
\* inserted.  A row with an invalid volume is dropped before dates are looked
\* at, so its unparseable date does not reject the batch; no row with an
\* unparseable date is ever stored.
C10_BadDateOfKeptRowRejects ==
    /\ \A r \in stocks : r.Date # NullDate
    /\ (Loaded /\ Readable) =>
        /\ outcome.status = "ValueError" <=> BadDateInKept
        /\ outcome.status = "ValueError" => (stocks = before /\ ~outcome.insertIssued)
        /\ ~BadDateInKept =>
             /\ outcome.status = "ok"
             /\ \A i \in RowIdx : ValidVolumeCell(Rows[i]) => Stored(Rows[i])

C10_Witness ==
    /\ pc = "loaded" /\ Readable /\ Len(Rows) = 2
    /\ \E i \in RowIdx : ~DateOk(Rows[i]) /\ ~ValidVolumeCell(Rows[i])
    /\ \E i \in RowIdx : DateOk(Rows[i]) /\ ValidVolumeCell(Rows[i]) /\ ~WasStored(Rows[i])
    /\ outcome.status = "ok" /\ outcome.inserted = 1 /\ outcome.skipped = 1

-----------------------------------------------------------------------------
(* Query claims, checked under SpecQuery *)

Answered(op) == pc = "answered" /\ out.op = op
Known(ticker) == \E r \in stocks : r.Ticker = ticker

Min(a, b) == IF a < b THEN a ELSE b

\* C6: the high-volume answer for a ticker with n rows has min(5, n) entries,
\* each a different row of that ticker, in non-increasing Volume order, and no
\* row of the ticker left out has a larger Volume than a returned one.
C6_TopFiveByVolume ==
    (Answered("run_queries") /\ out.result = "ok") =>
        LET rows == {r \in stocks : r.Ticker = out.ticker}
            top == out.top
            idx == 1..Len(top)
            Returned(r) == \E i \in idx : top[i].Date = r.Date
        IN  /\ Len(top) = Min(5, Cardinality(rows))
            /\ \A i \in idx : \E r \in rows : r.Date = top[i].Date /\ r.Volume = top[i].Volume
            /\ \A i, j \in idx : i # j => top[i].Date # top[j].Date
            /\ \A i, j \in idx : i < j => top[i].Volume >= top[j].Volume
            /\ \A r \in rows : ~Returned(r) => \A i \in idx : r.Volume <= top[i].Volume

\* seven rows of distinct volumes, of which the five largest come back in
\* descending order, while another ticker has a larger volume still
C6_Witness ==
    /\ Answered("run_queries") /\ out.result = "ok" /\ out.ticker = "AAPL"
    /\ {r.Volume : r \in {x \in stocks : x.Ticker = "AAPL"}} = {100 * n : n \in 1..7}
    /\ \E r \in stocks : r.Ticker = "MSFT" /\ r.Volume = 2500
    /\ [i \in 1..Len(out.top) |-> out.top[i].Volume] = <<700, 600, 500, 400, 300>>

\* C7: when run_queries passes its guards the price-increase answer holds a
\* (Ticker, Open, Close) for exactly the tickers, the queried one or not, whose
\* row on the queried date has Close > Open, with that row's prices.
C7_PriceIncreaseExact ==
    (Answered("run_queries") /\ out.result = "ok") =>
        /\ \A r \in stocks :
             (r.Date = out.date /\ r.Close > r.Open) <=>
                 (r.Date = out.date /\ \E x \in out.increases :
                     x.Ticker = r.Ticker /\ x.Open = r.Open /\ x.Close = r.Close)
        /\ \A x \in out.increases :
             \E r \in stocks : r.Date = out.date /\ r.Ticker = x.Ticker
                               /\ r.Open = x.Open /\ r.Close = x.Close
        /\ \A x \in out.increases : x.Close > x.Open

\* AAPL, the queried ticker, closed flat on the queried date and up on another;
\* MSFT closed up on the queried date
C7_Witness ==
    /\ Answered("run_queries") /\ out.result = "ok"
    /\ out.ticker = "AAPL" /\ out.date = "2023-01-01"
    /\ \E r \in stocks : r.Ticker = "AAPL" /\ r.Date = "2023-01-01" /\ r.Close = r.Open
    /\ \E r \in stocks : r.Ticker = "AAPL" /\ r.Date = "2023-01-02" /\ r.Close > r.Open
    /\ out.increases = {[Ticker |-> "MSFT", Open |-> 10000, Close |-> 10001]}

-----------------------------------------------------------------------------
(* Session claims, checked under Spec *)

\* C8: once a custom statement has been executed, the session is still in the
\* menu loop with its connection open (or was ended by the user), and no later
\* operation ends it with an error.
C8_StaysReady ==
    customRan =>
        /\ pc \in {"menu", "exited"}
        /\ pc = "menu" => conn = "open"
        /\ out.result # "sqlite3.Error"

\* C9: a process that acquired the connection and has ended, by the menu, by
\* 'exit' or by an error, has closed the connection exactly once.
C9_ClosedOnEveryExit ==
    (pc \in {"exited", "crashed"} /\ conn # "none") => (conn = "closed" /\ closeCount = 1)

=============================================================================
